---- MODULE Spec2Model ----
(***************************************************************************)
(* Nancymon: the turn-based battle of BattleScene, its timing check        *)
(* (BattleRhythmUI), the status registry, the combatant data of            *)
(* Memories.ts, the inventory and memory collection of GameState and the   *)
(* WorldScene entry and exit of a battle.                                  *)
(*                                                                         *)
(* Time is counted in units of 100 ms.  A pending Phaser timer or tween is *)
(* a record of the sequence timers; rem is the time left before it fires.  *)
(* Keyboard input takes no time; an input that schedules a timer may come  *)
(* any InputDelays units after the previous step.  A drawn Math.random()   *)
(* value is x/100 for x in RandomDraws.                                    *)
(***************************************************************************)
EXTENDS Integers, Sequences, FiniteSets, TLC

VARIABLES scene, rhythm, enemy, playerMemory, arrays, gameState, world, timers, obs

vars == <<scene, rhythm, enemy, playerMemory, arrays, gameState, world, timers, obs>>

\* ------------------------------------------------------------------ bounds
MaxTimers == 3
MaxCommands == 2
MaxBattles == 2
MaxComfortBattles == 1

RandomDraws == {0, 99}
InputDelays == {0, 7}
RhythmResults == {"PERFECT", "GOOD", "MISS"}

\* ------------------------------------------------------------------ data
NoStatus == "NONE"
NoChance == -1
DefaultDuration == 2

StatusTypes == {"BLUSHING", "LAUGHING", "CONFUSED", "INSPIRED", "TIRED", "DISTRACTED", "PROUD"}

MOVES ==
  [ hug    |-> [id |-> "hug",    power |-> 15, type |-> "comfort", statusEffect |-> "BLUSHING", statusChance |-> 30,       selfStatus |-> NoStatus],
    joke   |-> [id |-> "joke",   power |-> 20, type |-> "comfort", statusEffect |-> "LAUGHING", statusChance |-> 40,       selfStatus |-> NoStatus],
    kiss   |-> [id |-> "kiss",   power |-> 30, type |-> "comfort", statusEffect |-> "INSPIRED", statusChance |-> 50,       selfStatus |-> "INSPIRED"],
    words  |-> [id |-> "words",  power |-> 10, type |-> "heal",    statusEffect |-> NoStatus,   statusChance |-> 20,       selfStatus |-> "PROUD"],
    cuddle |-> [id |-> "cuddle", power |-> 25, type |-> "comfort", statusEffect |-> NoStatus,   statusChance |-> NoChance, selfStatus |-> NoStatus],
    dance  |-> [id |-> "dance",  power |-> 18, type |-> "special", statusEffect |-> "CONFUSED", statusChance |-> 60,       selfStatus |-> NoStatus] ]

STRESS_ENEMIES ==
  [ workStress   |-> [id |-> "workStress",   maxStress |-> 50,  attackPower |-> 8,  vibeReward |-> 10, xpReward |-> 30],
    anxietyCloud |-> [id |-> "anxietyCloud", maxStress |-> 70,  attackPower |-> 12, vibeReward |-> 15, xpReward |-> 50],
    loneliness   |-> [id |-> "loneliness",   maxStress |-> 100, attackPower |-> 15, vibeReward |-> 25, xpReward |-> 80],
    mondayBlues  |-> [id |-> "mondayBlues",  maxStress |-> 40,  attackPower |-> 6,  vibeReward |-> 8,  xpReward |-> 20],
    socialDrain  |-> [id |-> "socialDrain",  maxStress |-> 60,  attackPower |-> 10, vibeReward |-> 12, xpReward |-> 40] ]

ITEMS ==
  [ chocolate |-> [id |-> "chocolate", type |-> "heal",    value |-> 30],
    coffee    |-> [id |-> "coffee",    type |-> "heal",    value |-> 50],
    flower    |-> [id |-> "flower",    type |-> "comfort", value |-> 20],
    seed_rose |-> [id |-> "seed_rose", type |-> "seed",    value |-> 0] ]

\* Move and item objects that are not in the catalogues, as inputs of the handlers:
\* a move whose statusChance is specified as 0, and an item of type special.
DrawnMoves ==
  [ hugNever |-> [id |-> "hugNever", power |-> 15, type |-> "comfort", statusEffect |-> "BLUSHING",
                  statusChance |-> 0, selfStatus |-> NoStatus] ]

DrawnItems ==
  [ picnic |-> [id |-> "picnic", type |-> "special", value |-> 15] ]

MoveOf(id) == IF id \in DOMAIN MOVES THEN MOVES[id] ELSE DrawnMoves[id]

HasItem(id) == id \in DOMAIN ITEMS \/ id \in DOMAIN DrawnItems

ItemOf(id) == IF id \in DOMAIN ITEMS THEN ITEMS[id] ELSE DrawnItems[id]

AllMemories == <<"paris_trip", "first_kiss", "pizza_night", "stargazing", "rainy_day", "movie_marathon">>

\* The two status arrays of the heap: the array literal of DEFAULT_PLAYER_MEMORY,
\* which every shallow copy of the player's record keeps referring to, and the
\* array createEnemyInstance allocates for the current opponent.
PlayerArray == "DEFAULT_PLAYER_MEMORY.activeStatuses"
EnemyArray == "enemy.activeStatuses"

DEFAULT_PLAYER_MEMORY ==
  [ maxVibe |-> 100, currentVibe |-> 100, moves |-> <<"hug", "joke", "kiss", "words">>,
    level |-> 5, xp |-> 0, xpToNextLevel |-> 500, activeStatuses |-> PlayerArray ]

MENU_OPTIONS == <<"COMFORT", "ITEMS", "RUN">>

\* ------------------------------------------------------------------ arithmetic
Min(a, b) == IF a < b THEN a ELSE b
Max(a, b) == IF a > b THEN a ELSE b

\* Math.round(n / d) for n >= 0, d > 0: halves round up.
RoundDiv(n, d) == (2 * n + d) \div (2 * d)

\* Math.floor(x * n / d) for the factors 1.5, 1.2, 0.8, 0.7 and 2.
FloorMul(x, n, d) == (x * n) \div d

\* Math.random() < chance, both in hundredths.
Below(r, chance) == r < chance

calculateDamage(basePower, r) == RoundDiv(basePower * (800 + 4 * r), 1000)

createStatus(type) == [id |-> type, duration |-> DefaultDuration]

createEnemyInstanceLast(enemyId) ==
  LET template == IF enemyId \in DOMAIN STRESS_ENEMIES
                  THEN STRESS_ENEMIES[enemyId] ELSE STRESS_ENEMIES.socialDrain
  IN  [ id |-> template.id, maxStress |-> template.maxStress, currentStress |-> template.maxStress,
        attackPower |-> template.attackPower, vibeReward |-> template.vibeReward,
        xpReward |-> template.xpReward, activeStatuses |-> EnemyArray ]

createEnemyInstance(enemyId) ==
  LET template == IF enemyId \in DOMAIN STRESS_ENEMIES
                  THEN STRESS_ENEMIES[enemyId] ELSE STRESS_ENEMIES.workStress
  IN  [ id |-> template.id, maxStress |-> template.maxStress, currentStress |-> template.maxStress,
        attackPower |-> template.attackPower, vibeReward |-> template.vibeReward,
        xpReward |-> template.xpReward, activeStatuses |-> EnemyArray ]


\* ------------------------------------------------------------------ the machine
\* Handlers are operators from a machine record (one field per variable) to the
\* machine record after the handler has run.
Cur ==
  [ scene |-> scene, rhythm |-> rhythm, enemy |-> enemy, playerMemory |-> playerMemory,
    arrays |-> arrays, gameState |-> gameState, world |-> world, timers |-> timers, obs |-> obs ]

Timer(cb, delay, move, damage, result) ==
  [cb |-> cb, rem |-> delay, move |-> move, damage |-> damage, result |-> result]

\* this.time.delayedCall(delay, cb) and this.tweens.add({... onComplete: cb}).
delayedCall(m, cb, delay) ==
  [m EXCEPT !.timers = Append(@, Timer(cb, delay, "NONE", 0, "NONE"))]

delayedCallWith(m, cb, delay, move, damage, result) ==
  [m EXCEPT !.timers = Append(@, Timer(cb, delay, move, damage, result))]

Note(m, name) == [m EXCEPT !.obs.ev = name]

\* ------------------------------------------------------------------ text system
queueText(m, k) == [m EXCEPT !.scene.textQueue = @ + k]

showText(m) == [m EXCEPT !.scene.isTyping = TRUE]

showNextText(m) ==
  IF m.scene.textQueue = 0 THEN m
  ELSE showText([m EXCEPT !.scene.textQueue = @ - 1])

skipTypewriter(m) == [m EXCEPT !.scene.isTyping = FALSE]

\* ------------------------------------------------------------------ status system
StatusRef(m, target) ==
  IF target = "player" THEN m.playerMemory.activeStatuses ELSE m.enemy.activeStatuses

Statuses(m, target) == m.arrays[StatusRef(m, target)]

hasStatus(m, target, statusId) ==
  \E i \in 1..Len(Statuses(m, target)) : Statuses(m, target)[i].id = statusId

FirstIndex(s, statusId) ==
  CHOOSE i \in 1..Len(s) : s[i].id = statusId /\ \A j \in 1..(i - 1) : s[j].id # statusId

applyStatusStack(m, target, statusId) ==
  queueText([m EXCEPT !.arrays[StatusRef(m, target)] = Append(@, createStatus(statusId)),
                      !.obs.ev = "applyStatus"], 1)

applyStatus(m, target, statusId) ==
  LET ref == StatusRef(m, target)
      statuses == m.arrays[ref]
  IN  IF \E i \in 1..Len(statuses) : statuses[i].id = statusId
      THEN queueText([m EXCEPT !.arrays[ref][FirstIndex(statuses, statusId)].duration = 2,
                               !.obs.ev = "refreshStatus"], 1)
      ELSE queueText([m EXCEPT !.arrays[ref] = Append(@, createStatus(statusId)),
                               !.obs.ev = "applyStatus"], 1)

Decremented(statuses) ==
  [i \in 1..Len(statuses) |-> [statuses[i] EXCEPT !.duration = @ - 1]]

StillActive(status) == status.duration > 0

updateStatusDurationsKeepZero(m, target) ==
  [m EXCEPT !.arrays[StatusRef(m, target)] = Decremented(@)]

NotExpired(status) == status.duration >= 0

updateStatusDurationsLate(m, target) ==
  LET ref == StatusRef(m, target)
      kept == SelectSeq(Decremented(m.arrays[ref]), NotExpired)
  IN  queueText([m EXCEPT !.arrays[ref] = kept], Len(m.arrays[ref]) - Len(kept))

updateStatusDurations(m, target) ==
  LET ref == StatusRef(m, target)
      kept == SelectSeq(Decremented(m.arrays[ref]), StillActive)
  IN  queueText([m EXCEPT !.arrays[ref] = kept], Len(m.arrays[ref]) - Len(kept))

\* The result is [m, go]: go is FALSE when the turn is skipped.
processTurnStatusHealFirst(m, target, rLaugh, rDistract) ==
  LET healed == IF hasStatus(m, target, "PROUD") /\ target = "player"
                THEN [m EXCEPT !.playerMemory.currentVibe = Min(m.playerMemory.maxVibe, @ + 5)]
                ELSE m
  IN  IF hasStatus(m, target, "LAUGHING") /\ Below(rLaugh, 50)
      THEN [m |-> showNextText(queueText(healed, 1)), go |-> FALSE]
      ELSE IF hasStatus(m, target, "DISTRACTED") /\ Below(rDistract, 30)
      THEN [m |-> showNextText(queueText(healed, 1)), go |-> FALSE]
      ELSE [m |-> showNextText(queueText(healed, 1)), go |-> TRUE]

processTurnStatus(m, target, rLaugh, rDistract) ==
  IF hasStatus(m, target, "LAUGHING") /\ Below(rLaugh, 50)
  THEN [m |-> showNextText(queueText(m, 1)), go |-> FALSE]
  ELSE IF hasStatus(m, target, "DISTRACTED") /\ Below(rDistract, 30)
  THEN [m |-> showNextText(queueText(m, 1)), go |-> FALSE]
  ELSE IF hasStatus(m, target, "PROUD") /\ target = "player"
  THEN [m |-> showNextText(queueText(
                [m EXCEPT !.playerMemory.currentVibe = Min(m.playerMemory.maxVibe, @ + 5)], 1)),
        go |-> TRUE]
  ELSE [m |-> m, go |-> TRUE]


\* ------------------------------------------------------------------ GameState
hasCollected(gs, id) == \E i \in 1..Len(gs.collectedMemories) : gs.collectedMemories[i] = id

\* The value collectMemory returns: true for a newly collected id.
collectMemoryReturns(gs, id) == ~hasCollected(gs, id)

collectMemory(gs, id) ==
  IF hasCollected(gs, id) THEN gs
  ELSE [gs EXCEPT !.collectedMemories = Append(@, id)]

getCollectedCount(gs) == Len(gs.collectedMemories)

\* The inventory is a Map in insertion order: a sequence of [id, count] entries.
getInventoryItems(gs) == gs.inventory

getItemCount(gs, id) ==
  IF \E i \in 1..Len(gs.inventory) : gs.inventory[i].id = id
  THEN gs.inventory[CHOOSE i \in 1..Len(gs.inventory) : gs.inventory[i].id = id].count
  ELSE 0

InventoryWithout(inv, id) == SelectSeq(inv, LAMBDA e : e.id # id)

InventoryLess(inv, id) ==
  [i \in 1..Len(inv) |-> IF inv[i].id = id THEN [inv[i] EXCEPT !.count = @ - 1] ELSE inv[i]]

gsUseItemOverdraw(gs, id) ==
  LET current == getItemCount(gs, id)
  IN  IF current - 1 = 0
      THEN [gs |-> [gs EXCEPT !.inventory = InventoryWithout(@, id)], ok |-> TRUE]
      ELSE [gs |-> [gs EXCEPT !.inventory = InventoryLess(@, id)], ok |-> TRUE]

\* GameState.useItem(id, 1): [gs, ok].
gsUseItem(gs, id) ==
  LET current == getItemCount(gs, id)
  IN  IF current < 1 THEN [gs |-> gs, ok |-> FALSE]
      ELSE IF current - 1 = 0
      THEN [gs |-> [gs EXCEPT !.inventory = InventoryWithout(@, id)], ok |-> TRUE]
      ELSE [gs |-> [gs EXCEPT !.inventory = InventoryLess(@, id)], ok |-> TRUE]

\* ------------------------------------------------------------------ battle flow
StatusChance(move) ==
  IF move.statusChance = NoChance \/ move.statusChance = 0 THEN 50 ELSE move.statusChance

endBattle(m) ==
  delayedCall([m EXCEPT !.obs.ev = "endBattle", !.obs.ends = @ + 1], "endBattleTimer", 5)

checkEndgame(m) ==
  IF getCollectedCount(m.gameState) = Len(AllMemories)
  THEN [m EXCEPT !.gameState.isReadyForFinale = TRUE]
  ELSE m

showMemoryDropPopup(m) ==
  IF m.scene.droppedMemory = "null" THEN Note(m, "showMemoryDropPopup")
  ELSE checkEndgame([m EXCEPT !.scene.textQueue = 0, !.scene.isTyping = FALSE,
                              !.scene.isAnimating = FALSE, !.scene.state = "MEMORY_DROP",
                              !.obs.ev = "showMemoryDropPopup"])

UncollectedAll(gs) == AllMemories

Uncollected(gs) == SelectSeq(AllMemories, LAMBDA id : ~hasCollected(gs, id))

tryDropMemory(m, r) ==
  LET uncollected == Uncollected(m.gameState)
      randomIndex == (r * Len(uncollected)) \div 100
  IN  IF Len(uncollected) > 0
      THEN delayedCall(queueText(
             [m EXCEPT !.scene.droppedMemory = uncollected[randomIndex + 1],
                       !.gameState = collectMemory(@, uncollected[randomIndex + 1])], 1),
             "showMemoryDropPopup", 25)
      ELSE m

LevelUpResetXp(pm) ==
  IF pm.xp >= pm.xpToNextLevel
  THEN [pm EXCEPT !.xp = 0, !.level = @ + 1, !.maxVibe = @ + 10,
                  !.currentVibe = pm.maxVibe + 10, !.xpToNextLevel = (pm.level + 1) * 100]
  ELSE pm

LevelUp(pm) ==
  IF pm.xp >= pm.xpToNextLevel
  THEN [pm EXCEPT !.xp = @ - pm.xpToNextLevel, !.level = @ + 1, !.maxVibe = @ + 10,
                  !.currentVibe = pm.maxVibe + 10, !.xpToNextLevel = (pm.level + 1) * 100]
  ELSE pm

GrantXpNone(pm, xpReward) == pm

GrantXp(pm, xpReward) ==
  LET xpGain == IF xpReward = 0 THEN 30 ELSE xpReward
      gained == [pm EXCEPT !.xp = @ + xpGain]
  IN  IF gained.xpToNextLevel = 0
      THEN [gained EXCEPT !.xpToNextLevel = gained.level * 100]
      ELSE gained

handleVictory(m, r) ==
  LET m1 == queueText([m EXCEPT !.scene.state = "VICTORY", !.obs.ev = "handleVictory",
                                !.obs.victories = @ + 1], 2)
      m2 == [m1 EXCEPT !.playerMemory.currentVibe =
                          Min(m1.playerMemory.maxVibe, @ + m1.enemy.vibeReward)]
      m3 == queueText([m2 EXCEPT !.playerMemory = GrantXp(@, m2.enemy.xpReward)], 1)
      m4 == IF m3.playerMemory.xp >= m3.playerMemory.xpToNextLevel
            THEN queueText([m3 EXCEPT !.playerMemory = LevelUp(@)], 2)
            ELSE m3
  IN  showNextText(tryDropMemory(m4, r))

handleDefeat(m) ==
  showNextText(
    [queueText([m EXCEPT !.scene.state = "DEFEAT", !.obs.ev = "handleDefeat"], 3)
       EXCEPT !.playerMemory.currentVibe = m.playerMemory.maxVibe \div 2])

enemyTurnHugUncapped(m, rLaugh, rDistract, rConfused, rDamage) ==
  LET m1 == updateStatusDurations(
              [m EXCEPT !.scene.state = "ENEMY_TURN", !.obs.ev = "enemyTurn",
                        !.obs.run = IF @ = "failed" THEN "none" ELSE @], "enemy")
      p  == processTurnStatus(m1, "enemy", rLaugh, rDistract)
  IN  IF ~p.go THEN delayedCall(p.m, "transitionToPlayerTurn", 15)
      ELSE IF hasStatus(p.m, "enemy", "CONFUSED") /\ Below(rConfused, 50)
      THEN delayedCall(showNextText(
             [queueText(p.m, 1) EXCEPT !.playerMemory.currentVibe = @ + 10]),
             "transitionToPlayerTurn", 20)
      ELSE delayedCallWith(queueText(p.m, 1), "enemyAttackComplete", 4, "NONE",
                           calculateDamage(p.m.enemy.attackPower, rDamage), "NONE")

enemyTurn(m, rLaugh, rDistract, rConfused, rDamage) ==
  LET m1 == updateStatusDurations(
              [m EXCEPT !.scene.state = "ENEMY_TURN", !.obs.ev = "enemyTurn",
                        !.obs.run = IF @ = "failed" THEN "none" ELSE @], "enemy")
      p  == processTurnStatus(m1, "enemy", rLaugh, rDistract)
  IN  IF ~p.go THEN delayedCall(p.m, "transitionToPlayerTurn", 15)
      ELSE IF hasStatus(p.m, "enemy", "CONFUSED") /\ Below(rConfused, 50)
      THEN delayedCall(showNextText(
             [queueText(p.m, 1) EXCEPT !.playerMemory.currentVibe =
                                          Min(p.m.playerMemory.maxVibe, @ + 10)]),
             "transitionToPlayerTurn", 20)
      ELSE delayedCallWith(queueText(p.m, 1), "enemyAttackComplete", 4, "NONE",
                           calculateDamage(p.m.enemy.attackPower, rDamage), "NONE")

enemyAttackUnclamped(m, t) ==
  delayedCallWith([m EXCEPT !.playerMemory.currentVibe = @ - t.damage,
                            !.obs.ev = "enemyAttackComplete"],
                  "playerFlashComplete", 6, "NONE", t.damage, "NONE")

enemyAttackComplete(m, t) ==
  delayedCallWith([m EXCEPT !.playerMemory.currentVibe = Max(0, @ - t.damage),
                            !.obs.ev = "enemyAttackComplete"],
                  "playerFlashComplete", 6, "NONE", t.damage, "NONE")

playerFlashComplete(m) ==
  LET m1 == showNextText(queueText(Note(m, "playerFlashComplete"), 1))
  IN  IF m1.playerMemory.currentVibe <= 0
      THEN delayedCall(m1, "handleDefeat", 15)
      ELSE delayedCall(m1, "transitionToPlayerTurn", 15)

transitionToPlayerTurn(m, rLaugh, rDistract) ==
  LET m1 == updateStatusDurations([m EXCEPT !.obs.ev = "transitionToPlayerTurn"], "player")
      p  == processTurnStatus(m1, "player", rLaugh, rDistract)
  IN  IF ~p.go THEN delayedCall(p.m, "enemyTurn", 15)
      ELSE showText([p.m EXCEPT !.scene.state = "PLAYER_TURN"])

attemptRun(m, r) ==
  IF Below(r, 70)
  THEN showNextText(queueText([m EXCEPT !.scene.state = "RUN_AWAY", !.obs.ev = "runAway",
                                   !.obs.commands = @ + 1, !.obs.run = "away"], 2))
  ELSE delayedCall(showNextText(queueText(
                     [m EXCEPT !.obs.ev = "runFailed", !.obs.commands = @ + 1,
                               !.obs.run = "failed"], 1)),
                   "enemyTurn", 15)

\* ------------------------------------------------------------------ timing check
stopAndEvaluate(m, result) ==
  delayedCallWith([m EXCEPT !.rhythm.isRunning = FALSE, !.obs.ev = "stopAndEvaluate"],
                  "rhythmCallback", 5, "NONE", 0, result)

checkInput(m, result) ==
  IF ~m.rhythm.isRunning THEN m ELSE stopAndEvaluate(m, result)

rhythmTimeout(m) ==
  IF m.rhythm.isRunning THEN stopAndEvaluate(m, "MISS") ELSE Note(m, "rhythmTimeout")

rhythmStart(m, move) ==
  delayedCall([m EXCEPT !.rhythm.callback = move, !.rhythm.isRunning = TRUE], "rhythmTimeout", 30)

executePlayerMove(m) ==
  LET move == m.playerMemory.moves[m.scene.currentMoveIndex + 1]
  IN  rhythmStart(showNextText(queueText(
        [m EXCEPT !.scene.state = "MINIGAME", !.obs.ev = "executePlayerMove",
                  !.obs.commands = @ + 1], 1)), move)

RhythmDamageMissZero(damage, result) ==
  IF result = "PERFECT" THEN FloorMul(damage, 3, 2)
  ELSE IF result = "GOOD" THEN FloorMul(damage, 6, 5)
  ELSE 0

RhythmDamage(damage, result) ==
  IF result = "PERFECT" THEN FloorMul(damage, 3, 2)
  ELSE IF result = "GOOD" THEN FloorMul(damage, 6, 5)
  ELSE FloorMul(damage, 4, 5)

handleActionCommandResultConsume(m, moveId, result, r) ==
  LET move == MoveOf(moveId)
      m1 == queueText([m EXCEPT !.scene.state = "PLAYER_ACTION", !.scene.isAnimating = TRUE,
                                !.obs.ev = "handleActionCommandResult"], 1)
      d1 == RhythmDamage(calculateDamage(move.power, r), result)
      inspired == hasStatus(m1, "player", "INSPIRED")
      d2 == IF inspired THEN FloorMul(d1, 2, 1) ELSE d1
      m2 == IF inspired
            THEN queueText([m1 EXCEPT !.arrays[StatusRef(m1, "player")] =
                                         SelectSeq(@, LAMBDA e : e.id # "INSPIRED")], 1)
            ELSE m1
      d3 == IF hasStatus(m2, "player", "TIRED") THEN FloorMul(d2, 7, 10) ELSE d2
  IN  delayedCallWith(queueText(m2, 1), "playerAttackComplete", 3, moveId, d3, result)

handleActionCommandResult(m, moveId, result, r) ==
  LET move == MoveOf(moveId)
      m1 == queueText([m EXCEPT !.scene.state = "PLAYER_ACTION", !.scene.isAnimating = TRUE,
                                !.obs.ev = "handleActionCommandResult"], 1)
      d1 == RhythmDamage(calculateDamage(move.power, r), result)
      inspired == hasStatus(m1, "player", "INSPIRED")
      d2 == IF inspired THEN FloorMul(d1, 2, 1) ELSE d1
      m2 == IF inspired THEN queueText(m1, 1) ELSE m1
      d3 == IF hasStatus(m2, "player", "TIRED") THEN FloorMul(d2, 7, 10) ELSE d2
  IN  delayedCallWith(queueText(m2, 1), "playerAttackComplete", 3, moveId, d3, result)

playerAttackComplete(m, t) ==
  delayedCallWith([m EXCEPT !.enemy.currentStress = Max(0, @ - t.damage),
                            !.obs.ev = "playerAttackComplete"],
                  "enemyShakeComplete", 4, t.move, t.damage, t.result)

enemyShakeCompleteHealAll(m, t, r) ==
  LET move == MoveOf(t.move)
      m0 == Note(m, "enemyShakeComplete")
      m1 == IF move.statusEffect # NoStatus /\ Below(r, StatusChance(move))
            THEN applyStatus(m0, "enemy", move.statusEffect) ELSE m0
      m2 == IF move.selfStatus # NoStatus THEN applyStatus(m1, "player", move.selfStatus) ELSE m1
      m3 == queueText([m2 EXCEPT !.playerMemory.currentVibe =
                         Min(m2.playerMemory.maxVibe, @ + RoundDiv(t.damage * 3, 10))], 1)
      m4 == showNextText(queueText(m3, 1))
  IN  IF m4.enemy.currentStress <= 0
      THEN delayedCall(m4, "actionVictory", 15)
      ELSE delayedCall(m4, "actionEnemyTurn", 15)

enemyShakeComplete(m, t, r) ==
  LET move == MoveOf(t.move)
      m0 == Note(m, "enemyShakeComplete")
      m1 == IF move.statusEffect # NoStatus /\ Below(r, StatusChance(move))
            THEN applyStatus(m0, "enemy", move.statusEffect) ELSE m0
      m2 == IF move.selfStatus # NoStatus THEN applyStatus(m1, "player", move.selfStatus) ELSE m1
      m3 == IF move.type = "heal"
            THEN queueText([m2 EXCEPT !.playerMemory.currentVibe =
                               Min(m2.playerMemory.maxVibe, @ + RoundDiv(t.damage * 3, 10))], 1)
            ELSE m2
      m4 == showNextText(queueText(m3, 1))
  IN  IF m4.enemy.currentStress <= 0
      THEN delayedCall(m4, "actionVictory", 15)
      ELSE delayedCall(m4, "actionEnemyTurn", 15)

actionEnemyTurn(m, rLaugh, rDistract, rConfused, rDamage) ==
  enemyTurn([m EXCEPT !.scene.isAnimating = FALSE], rLaugh, rDistract, rConfused, rDamage)

\* ------------------------------------------------------------------ items
useItemKeep(m) ==
  LET inventory == getInventoryItems(m.gameState)
      index == m.scene.currentItemIndex + 1
  IN  IF Len(inventory) = 0 \/ index > Len(inventory) THEN m
      ELSE IF ~HasItem(inventory[index].id) THEN m
      ELSE LET item == ItemOf(inventory[index].id)
               used == gsUseItem(m.gameState, item.id)
               m1 == queueText([m EXCEPT !.scene.state = "PLAYER_ACTION",
                                         !.scene.isAnimating = TRUE, !.obs.ev = "useItem",
                                         !.obs.commands = @ + 1], 1)
               m2 == IF item.type \in {"heal", "special"}
                     THEN queueText([m1 EXCEPT !.playerMemory.currentVibe =
                                        Min(m1.playerMemory.maxVibe, @ + item.value)], 1)
                     ELSE m1
               m3 == IF item.type \in {"comfort", "special"}
                     THEN queueText([m2 EXCEPT !.enemy.currentStress = Max(0, @ - item.value)], 1)
                     ELSE m2
           IN  IF used.ok THEN delayedCall(showNextText(m3), "itemDone", 20) ELSE m

useItem(m) ==
  LET inventory == getInventoryItems(m.gameState)
      index == m.scene.currentItemIndex + 1
  IN  IF Len(inventory) = 0 \/ index > Len(inventory) THEN m
      ELSE IF ~HasItem(inventory[index].id) THEN m
      ELSE LET item == ItemOf(inventory[index].id)
               used == gsUseItem(m.gameState, item.id)
               m1 == queueText([m EXCEPT !.gameState = used.gs, !.scene.state = "PLAYER_ACTION",
                                         !.scene.isAnimating = TRUE, !.obs.ev = "useItem",
                                         !.obs.commands = @ + 1], 1)
               m2 == IF item.type \in {"heal", "special"}
                     THEN queueText([m1 EXCEPT !.playerMemory.currentVibe =
                                        Min(m1.playerMemory.maxVibe, @ + item.value)], 1)
                     ELSE m1
               m3 == IF item.type \in {"comfort", "special"}
                     THEN queueText([m2 EXCEPT !.enemy.currentStress = Max(0, @ - item.value)], 1)
                     ELSE m2
           IN  IF used.ok THEN delayedCall(showNextText(m3), "itemDone", 20) ELSE m

itemDone(m, rLaugh, rDistract, rConfused, rDamage) ==
  LET m1 == [m EXCEPT !.scene.isAnimating = FALSE]
  IN  IF m1.enemy.currentStress <= 0 THEN handleVictory(m1, rDamage)
      ELSE enemyTurn(m1, rLaugh, rDistract, rConfused, rDamage)


\* ------------------------------------------------------------------ input handling
handleMainMenuSelectionStale(m, r) ==
  LET selected == MENU_OPTIONS[m.scene.currentMenuIndex + 1]
  IN  IF selected = "COMFORT"
      THEN showText([m EXCEPT !.scene.state = "PLAYER_SELECTING_MOVE", !.scene.currentMoveIndex = 0])
      ELSE IF selected = "ITEMS"
      THEN showText([m EXCEPT !.scene.state = "PLAYER_SELECTING_ITEM"])
      ELSE attemptRun(m, r)

handleMainMenuSelection(m, r) ==
  LET selected == MENU_OPTIONS[m.scene.currentMenuIndex + 1]
  IN  IF selected = "COMFORT"
      THEN showText([m EXCEPT !.scene.state = "PLAYER_SELECTING_MOVE", !.scene.currentMoveIndex = 0])
      ELSE IF selected = "ITEMS"
      THEN showText([m EXCEPT !.scene.state = "PLAYER_SELECTING_ITEM", !.scene.currentItemIndex = 0])
      ELSE attemptRun(m, r)

handleConfirm(m, r) ==
  IF m.scene.isTyping THEN skipTypewriter(m)
  ELSE IF m.scene.textQueue > 0 THEN showNextText(m)
  ELSE IF m.scene.isAnimating THEN m
  ELSE IF m.scene.state = "INTRO" THEN transitionToPlayerTurn(m, r, r)
  ELSE IF m.scene.state = "PLAYER_TURN" THEN handleMainMenuSelection(m, r)
  ELSE IF m.scene.state = "PLAYER_SELECTING_MOVE" THEN executePlayerMove(m)
  ELSE IF m.scene.state = "PLAYER_SELECTING_ITEM" THEN useItem(m)
  ELSE IF m.scene.state \in {"VICTORY", "DEFEAT", "RUN_AWAY", "MEMORY_DROP"} THEN endBattle(m)
  ELSE m

handleCancel(m) ==
  IF m.scene.isAnimating \/ m.scene.isTyping THEN m
  ELSE IF m.scene.state \in {"PLAYER_SELECTING_MOVE", "PLAYER_SELECTING_ITEM"}
  THEN showText([m EXCEPT !.scene.state = "PLAYER_TURN"])
  ELSE m

Wrap(index, direction, count) == (index + direction + count) % count

handleMenuNavigation(m, direction) ==
  IF m.scene.isAnimating \/ m.scene.isTyping THEN m
  ELSE IF m.scene.state = "PLAYER_TURN"
  THEN [m EXCEPT !.scene.currentMenuIndex = Wrap(@, direction, Len(MENU_OPTIONS))]
  ELSE IF m.scene.state = "PLAYER_SELECTING_MOVE"
  THEN LET moveCount == Len(m.playerMemory.moves)
       IN  [m EXCEPT !.scene.currentMoveIndex =
                        Wrap(Wrap(@, direction, moveCount), direction, moveCount)]
  ELSE IF m.scene.state = "PLAYER_SELECTING_ITEM" /\ Len(getInventoryItems(m.gameState)) > 0
  THEN [m EXCEPT !.scene.currentItemIndex =
                    Wrap(@, direction, Len(getInventoryItems(m.gameState)))]
  ELSE m

\* A SPACE or ENTER press: the Key object's 'down' listeners of the timing check
\* run first, then the scene's keydown handler.
keyConfirm(m, result, r) == handleConfirm(checkInput(m, result), r)

\* ------------------------------------------------------------------ battle entry and exit
introComplete(m) == showNextText(queueText(Note(m, "introComplete"), 2))

\* BattleScene.init and create, on the data WorldScene.startBattle passes.
battleInit(m, foe) ==
  [m EXCEPT !.enemy = foe,
            !.arrays[foe.activeStatuses] = <<>>,
            !.playerMemory = m.world.playerMemory,
            !.scene.state = "INTRO", !.scene.currentMenuIndex = 0, !.scene.currentMoveIndex = 0,
            !.scene.isAnimating = FALSE, !.scene.textQueue = 0, !.scene.isTyping = FALSE,
            !.rhythm = [isRunning |-> FALSE, callback |-> "NONE"],
            !.obs = [ev |-> "init", victories |-> 0, ends |-> 0, commands |-> m.obs.commands,
                    run |-> "none"]]

startBattle(m, enemyId) ==
  delayedCall(battleInit([m EXCEPT !.world.phase = "battle", !.world.battles = @ + 1],
                         createEnemyInstance(enemyId)),
              "introComplete", 5)

\* The callback of endBattle's timer: scene.stop drops the scene's timers and tweens,
\* and the wake handler of WorldScene takes the player's record.
endBattleTimerForget(m) ==
  [m EXCEPT !.timers = <<>>, !.world.phase = "world", !.obs.ev = "wake"]

endBattleTimer(m) ==
  [m EXCEPT !.timers = <<>>, !.world.phase = "world", !.world.playerMemory = m.playerMemory,
            !.obs.ev = "wake"]

\* ------------------------------------------------------------------ initial state
EnemyPool == {"mondayBlues"}

InitPlayers ==
  { [DEFAULT_PLAYER_MEMORY EXCEPT !.currentVibe = 12, !.xp = 480] }

InitInventory == << [id |-> "flower", count |-> 1] >>

InitCollected == SubSeq(AllMemories, 1, 5)

Init ==
  /\ scene = [state |-> "INTRO", isAnimating |-> FALSE, isTyping |-> FALSE, textQueue |-> 0,
              currentMenuIndex |-> 0, currentMoveIndex |-> 0, currentItemIndex |-> 0,
              droppedMemory |-> "null"]
  /\ rhythm = [isRunning |-> FALSE, callback |-> "NONE"]
  /\ enemy = createEnemyInstance("workStress")
  /\ playerMemory = DEFAULT_PLAYER_MEMORY
  /\ arrays = [a \in {PlayerArray, EnemyArray} |-> <<>>]
  /\ gameState = [inventory |-> InitInventory, collectedMemories |-> InitCollected,
                  isReadyForFinale |-> FALSE]
  /\ \E pm \in InitPlayers : world = [phase |-> "world", playerMemory |-> pm, battles |-> 0]
  /\ timers = <<>>
  /\ obs = [ev |-> "init", victories |-> 0, ends |-> 0, commands |-> 0,
            run |-> "none"]

\* ------------------------------------------------------------------ steps
InBattle == world.phase = "battle"

\* The step to machine n: at most MaxTimers timers are pending.
Commit(n) ==
  \E k \in {n} :
     /\ Len(k.timers) <= MaxTimers
     /\ scene' = k.scene
     /\ rhythm' = k.rhythm
     /\ enemy' = k.enemy
     /\ playerMemory' = k.playerMemory
     /\ arrays' = k.arrays
     /\ gameState' = k.gameState
     /\ world' = k.world
     /\ timers' = k.timers
     /\ obs' = k.obs

MinRem(ts) == CHOOSE r \in {ts[i].rem : i \in 1..Len(ts)} : \A i \in 1..Len(ts) : r <= ts[i].rem

Elapse(ts, e) ==
  IF Len(ts) = 0 THEN <<>> ELSE [i \in 1..Len(ts) |-> [ts[i] EXCEPT !.rem = @ - e]]

Without(ts, i) == SubSeq(ts, 1, i - 1) \o SubSeq(ts, i + 1, Len(ts))

\* The delays after which an input may come: no pending timer is overdue.
Delays == IF Len(timers) = 0 THEN {0} ELSE {e \in InputDelays : e <= MinRem(timers)}

After(e) == [Cur EXCEPT !.timers = Elapse(timers, e)]

\* An input that scheduled nothing is not told apart by the time it came.
Timed(e, n) == e = 0 \/ Len(n.timers) > Len(timers)

Due(i, cb) == timers[i].cb = cb /\ timers[i].rem = MinRem(timers)

\* The machine when timer i fires: time has advanced to it and it is removed.
Fired(i) == [Cur EXCEPT !.timers = Without(Elapse(timers, timers[i].rem), i)]

StartBattle ==
  /\ world.phase = "world"
  /\ world.battles < MaxBattles
  /\ \E enemyId \in EnemyPool : Commit(startBattle(Cur, enemyId))

KeyConfirm ==
  /\ InBattle
  /\ \E e \in Delays, result \in RhythmResults, r \in RandomDraws :
        \E n \in {keyConfirm(After(e), result, r)} :
           Timed(e, n) /\ n.obs.commands <= MaxCommands /\ Commit(n)

KeyCancel == InBattle /\ Commit(handleCancel(Cur))

KeyNavigate == InBattle /\ \E direction \in {-1, 1} : Commit(handleMenuNavigation(Cur, direction))

TypewriterDone == InBattle /\ scene.isTyping /\ Commit(skipTypewriter(Cur))

OnIntroComplete ==
  \E i \in 1..Len(timers) : Due(i, "introComplete") /\ Commit(introComplete(Fired(i)))

OnRhythmTimeout ==
  \E i \in 1..Len(timers) : Due(i, "rhythmTimeout") /\ Commit(rhythmTimeout(Fired(i)))

OnRhythmCallback ==
  \E i \in 1..Len(timers), r \in RandomDraws :
     /\ Due(i, "rhythmCallback")
     /\ Commit(handleActionCommandResult(Fired(i), rhythm.callback, timers[i].result, r))

OnPlayerAttackComplete ==
  \E i \in 1..Len(timers) :
     Due(i, "playerAttackComplete") /\ Commit(playerAttackComplete(Fired(i), timers[i]))

OnEnemyShakeComplete ==
  \E i \in 1..Len(timers), r \in RandomDraws :
     Due(i, "enemyShakeComplete") /\ Commit(enemyShakeComplete(Fired(i), timers[i], r))

OnActionVictory ==
  \E i \in 1..Len(timers), r \in RandomDraws :
     Due(i, "actionVictory") /\ Commit(handleVictory(Fired(i), r))

OnActionEnemyTurn ==
  \E i \in 1..Len(timers), rl, rd, rc, rx \in RandomDraws :
     Due(i, "actionEnemyTurn") /\ Commit(actionEnemyTurn(Fired(i), rl, rd, rc, rx))

OnItemDone ==
  \E i \in 1..Len(timers), rl, rd, rc, rx \in RandomDraws :
     Due(i, "itemDone") /\ Commit(itemDone(Fired(i), rl, rd, rc, rx))

OnEnemyTurn ==
  \E i \in 1..Len(timers), rl, rd, rc, rx \in RandomDraws :
     Due(i, "enemyTurn") /\ Commit(enemyTurn(Fired(i), rl, rd, rc, rx))

OnEnemyAttackComplete ==
  \E i \in 1..Len(timers) :
     Due(i, "enemyAttackComplete") /\ Commit(enemyAttackComplete(Fired(i), timers[i]))

OnPlayerFlashComplete ==
  \E i \in 1..Len(timers) :
     Due(i, "playerFlashComplete") /\ Commit(playerFlashComplete(Fired(i)))

OnTransitionToPlayerTurn ==
  \E i \in 1..Len(timers), rl, rd \in RandomDraws :
     Due(i, "transitionToPlayerTurn") /\ Commit(transitionToPlayerTurn(Fired(i), rl, rd))

OnHandleDefeat ==
  \E i \in 1..Len(timers) : Due(i, "handleDefeat") /\ Commit(handleDefeat(Fired(i)))

OnShowMemoryDropPopup ==
  \E i \in 1..Len(timers) :
     Due(i, "showMemoryDropPopup") /\ Commit(showMemoryDropPopup(Fired(i)))

OnEndBattleTimer ==
  \E i \in 1..Len(timers) : Due(i, "endBattleTimer") /\ Commit(endBattleTimer(Fired(i)))

TimerFires ==
  \/ OnIntroComplete \/ OnRhythmTimeout \/ OnRhythmCallback \/ OnPlayerAttackComplete
  \/ OnEnemyShakeComplete \/ OnActionVictory \/ OnActionEnemyTurn \/ OnItemDone
  \/ OnEnemyTurn \/ OnEnemyAttackComplete \/ OnPlayerFlashComplete
  \/ OnTransitionToPlayerTurn \/ OnHandleDefeat \/ OnShowMemoryDropPopup \/ OnEndBattleTimer

Next ==
  \/ StartBattle
  \/ KeyConfirm
  \/ KeyCancel
  \/ KeyNavigate
  \/ TypewriterDone
  \/ TimerFires

Spec == Init /\ [][Next]_vars

\* ------------------------------------------------------------------ the comfort player
\* A player who confirms a COMFORT move on every turn: the main menu stays on its first
\* entry, no item is used, nothing is cancelled, and the number of moves is not capped.
\* The player's record has lost vibe in earlier battles, so that a battle can be lost
\* as well as won.
ComfortPlayers ==
  { [DEFAULT_PLAYER_MEMORY EXCEPT !.currentVibe = 24] }

InitComfort ==
  /\ scene = [state |-> "INTRO", isAnimating |-> FALSE, isTyping |-> FALSE, textQueue |-> 0,
              currentMenuIndex |-> 0, currentMoveIndex |-> 0, currentItemIndex |-> 0,
              droppedMemory |-> "null"]
  /\ rhythm = [isRunning |-> FALSE, callback |-> "NONE"]
  /\ enemy = createEnemyInstance("workStress")
  /\ playerMemory = DEFAULT_PLAYER_MEMORY
  /\ arrays = [a \in {PlayerArray, EnemyArray} |-> <<>>]
  /\ gameState = [inventory |-> InitInventory, collectedMemories |-> InitCollected,
                  isReadyForFinale |-> FALSE]
  /\ \E pm \in ComfortPlayers : world = [phase |-> "world", playerMemory |-> pm, battles |-> 0]
  /\ timers = <<>>
  /\ obs = [ev |-> "init", victories |-> 0, ends |-> 0, commands |-> 0,
            run |-> "none"]

ComfortStart ==
  /\ world.phase = "world"
  /\ world.battles < MaxComfortBattles
  /\ \E enemyId \in EnemyPool : Commit(startBattle(Cur, enemyId))

ComfortConfirm ==
  /\ InBattle
  /\ MENU_OPTIONS[scene.currentMenuIndex + 1] = "COMFORT"
  /\ \E e \in Delays, result \in RhythmResults, r \in RandomDraws :
        \E n \in {keyConfirm(After(e), result, r)} : Timed(e, n) /\ Commit(n)

MoveNavigate ==
  /\ InBattle
  /\ scene.state = "PLAYER_SELECTING_MOVE"
  /\ \E direction \in {-1, 1} : Commit(handleMenuNavigation(Cur, direction))

\* The timers a battle of comfort moves schedules: an itemDone timer comes only from
\* useItem, an enemyTurn timer only from a failed RUN or a skipped player turn.
ComfortTimerFires ==
  \/ OnIntroComplete \/ OnRhythmTimeout \/ OnRhythmCallback \/ OnPlayerAttackComplete
  \/ OnEnemyShakeComplete \/ OnActionVictory \/ OnActionEnemyTurn
  \/ OnEnemyAttackComplete \/ OnPlayerFlashComplete
  \/ OnTransitionToPlayerTurn \/ OnHandleDefeat \/ OnShowMemoryDropPopup \/ OnEndBattleTimer

NextComfort ==
  \/ ComfortStart
  \/ ComfortConfirm
  \/ MoveNavigate
  \/ TypewriterDone
  \/ ComfortTimerFires

\* A pending timer fires and the player presses confirm: the battle does not stand
\* still while one of the two can change its state.
SpecComfort ==
  /\ InitComfort
  /\ [][NextComfort]_vars
  /\ WF_vars(ComfortTimerFires \/ ComfortConfirm)

\* ------------------------------------------------------------------ a longer battle
\* One battle of up to MaxLongCommands commands by a player who never cancels, lets the
\* typewriter run, stops the timing check on PERFECT and is unlucky in every draw made
\* on a key press (a RUN fails).
MaxLongCommands == 3
MaxLongBattles == 1

LongStart ==
  /\ world.phase = "world"
  /\ world.battles < MaxLongBattles
  /\ \E enemyId \in EnemyPool : Commit(startBattle(Cur, enemyId))

LongConfirm ==
  /\ InBattle
  /\ \E e \in Delays :
        \E n \in {keyConfirm(After(e), "PERFECT", 99)} :
           Timed(e, n) /\ n.obs.commands <= MaxLongCommands /\ Commit(n)

NextLong ==
  \/ LongStart
  \/ LongConfirm
  \/ KeyNavigate
  \/ TimerFires

SpecLong == Init /\ [][NextLong]_vars

\* ------------------------------------------------------------------ a gated opponent
\* One battle, at the player's first turn, against an opponent that holds drawn statuses
\* (LAUGHING is the status of the move joke; DISTRACTED is gated by processTurnStatus).
GateStatuses ==
  { <<>>,
    <<createStatus("LAUGHING")>>,
    <<createStatus("DISTRACTED")>>,
    <<createStatus("LAUGHING"), createStatus("DISTRACTED")>> }

Overworld(pm) ==
  [ scene |-> [state |-> "INTRO", isAnimating |-> FALSE, isTyping |-> FALSE, textQueue |-> 0,
               currentMenuIndex |-> 0, currentMoveIndex |-> 0, currentItemIndex |-> 0,
               droppedMemory |-> "null"],
    rhythm |-> [isRunning |-> FALSE, callback |-> "NONE"],
    enemy |-> createEnemyInstance("workStress"),
    playerMemory |-> DEFAULT_PLAYER_MEMORY,
    arrays |-> [a \in {PlayerArray, EnemyArray} |-> <<>>],
    gameState |-> [inventory |-> InitInventory, collectedMemories |-> InitCollected,
                   isReadyForFinale |-> FALSE],
    world |-> [phase |-> "battle", playerMemory |-> pm, battles |-> 1],
    timers |-> <<>>,
    obs |-> [ev |-> "init", victories |-> 0, ends |-> 0, commands |-> 0, run |-> "none"] ]

InitGate ==
  \E pm \in InitPlayers, enemyId \in EnemyPool, st \in GateStatuses :
     \E m \in {battleInit(Overworld(pm), createEnemyInstance(enemyId))} :
        /\ scene = [m.scene EXCEPT !.state = "PLAYER_TURN"]
        /\ rhythm = m.rhythm
        /\ enemy = m.enemy
        /\ playerMemory = m.playerMemory
        /\ arrays = [m.arrays EXCEPT ![m.enemy.activeStatuses] = st]
        /\ gameState = m.gameState
        /\ world = m.world
        /\ timers = m.timers
        /\ obs = m.obs

GateTimerFires ==
  \/ OnRhythmTimeout \/ OnRhythmCallback \/ OnPlayerAttackComplete
  \/ OnEnemyShakeComplete \/ OnActionVictory \/ OnActionEnemyTurn \/ OnItemDone
  \/ OnEnemyTurn \/ OnEnemyAttackComplete \/ OnPlayerFlashComplete
  \/ OnTransitionToPlayerTurn \/ OnHandleDefeat \/ OnShowMemoryDropPopup \/ OnEndBattleTimer

NextGate ==
  \/ KeyConfirm
  \/ KeyCancel
  \/ KeyNavigate
  \/ TypewriterDone
  \/ GateTimerFires

SpecGate == InitGate /\ [][NextGate]_vars

\* ------------------------------------------------------------------ a stocked bag
\* One battle from the player's turn with several kinds of item in the inventory, as
\* giveStarterItems stocks it, or with none.
MenuInventories ==
  { <<>>,
    << [id |-> "chocolate", count |-> 1], [id |-> "flower", count |-> 2],
       [id |-> "seed_rose", count |-> 1] >> }

InitMenu ==
  \E pm \in InitPlayers, enemyId \in EnemyPool, inv \in MenuInventories :
     \E m \in {battleInit(Overworld(pm), createEnemyInstance(enemyId))} :
        /\ scene = [m.scene EXCEPT !.state = "PLAYER_TURN"]
        /\ rhythm = m.rhythm
        /\ enemy = m.enemy
        /\ playerMemory = m.playerMemory
        /\ arrays = m.arrays
        /\ gameState = [m.gameState EXCEPT !.inventory = inv]
        /\ world = m.world
        /\ timers = m.timers
        /\ obs = m.obs

SpecMenu == InitMenu /\ [][NextGate]_vars

\* ------------------------------------------------------------------ one resolution
\* One handler of the battle applied to drawn inputs: a confirm in the item menu on a
\* drawn inventory, the delivery of a timing outcome for a drawn move, an enemy turn or a
\* turn start of the player with drawn statuses on both sides; then the timers it set.
ActDraws == {0, 50, 99}
ActMoves == DOMAIN MOVES \cup DOMAIN DrawnMoves
ActVibes == {12, 95}
ActStresses == {10, 40}

\* Inventories as loadFromData installs them from a save: any id, any count.
ActInventories ==
  { <<>>,
    << [id |-> "chocolate", count |-> 2] >>,
    << [id |-> "flower", count |-> 1], [id |-> "seed_rose", count |-> 1] >>,
    << [id |-> "picnic", count |-> 1], [id |-> "flower", count |-> 0] >>,
    << [id |-> "mystery", count |-> 1] >> }

ActPlayerStatuses ==
  { <<>>,
    <<createStatus("INSPIRED")>>,
    <<createStatus("TIRED")>>,
    <<createStatus("LAUGHING"), createStatus("PROUD")>>,
    <<createStatus("DISTRACTED"), createStatus("INSPIRED")>> }

ActEnemyStatuses ==
  { <<>>,
    <<createStatus("LAUGHING")>>,
    <<createStatus("CONFUSED")>>,
    <<createStatus("INSPIRED")>>,
    <<createStatus("DISTRACTED"), createStatus("CONFUSED")>> }

\* The drawn part of the scenario: the scene's state with the inventory, the item index
\* and the statuses that matter in it.
ActScenarios ==
  { sc \in [state : {"PLAYER_SELECTING_ITEM"}, inv : ActInventories, idx : {0, 1},
             ps : {<<>>}, es : {<<>>}] : sc.idx = 0 \/ sc.idx < Len(sc.inv) }
  \cup
  { [state |-> st, inv |-> InitInventory, idx |-> 0, ps |-> ps, es |-> es] :
      st \in {"MINIGAME", "PLAYER_ACTION", "ENEMY_TURN"},
      ps \in ActPlayerStatuses, es \in ActEnemyStatuses }

InitAct ==
  \E pm \in InitPlayers, enemyId \in EnemyPool, v \in ActVibes, st \in ActStresses,
     sc \in ActScenarios :
     \E m \in {battleInit(Overworld([pm EXCEPT !.currentVibe = v]),
                           createEnemyInstance(enemyId))} :
        /\ scene = [m.scene EXCEPT !.state = sc.state, !.currentItemIndex = sc.idx]
        /\ rhythm = m.rhythm
        /\ enemy = [m.enemy EXCEPT !.currentStress = st]
        /\ playerMemory = m.playerMemory
        /\ arrays = [m.arrays EXCEPT ![m.enemy.activeStatuses] = sc.es,
                                    ![m.playerMemory.activeStatuses] = sc.ps]
        /\ gameState = [m.gameState EXCEPT !.inventory = sc.inv]
        /\ world = m.world
        /\ timers = m.timers
        /\ obs = m.obs

\* A confirm in the item menu; a confirm that changed nothing is noted.
ActItem ==
  /\ obs.ev = "init"
  /\ scene.state = "PLAYER_SELECTING_ITEM"
  /\ \E r \in RandomDraws :
        \E n \in {keyConfirm(Cur, "MISS", r)} :
           Commit(IF n = Cur THEN Note(n, "confirmIgnored") ELSE n)

\* The timing check delivers its outcome for a drawn move.
ActMove ==
  /\ obs.ev = "init"
  /\ scene.state = "MINIGAME"
  /\ \E moveId \in ActMoves, result \in RhythmResults, r \in ActDraws :
        Commit(handleActionCommandResult([Cur EXCEPT !.rhythm.callback = moveId],
                                         moveId, result, r))

ActEnemyTurn ==
  /\ obs.ev = "init"
  /\ scene.state = "PLAYER_ACTION"
  /\ \E rl, rd, rc \in RandomDraws, rx \in ActDraws : Commit(enemyTurn(Cur, rl, rd, rc, rx))

ActPlayerTurn ==
  /\ obs.ev = "init"
  /\ scene.state = "ENEMY_TURN"
  /\ \E rl, rd \in RandomDraws : Commit(transitionToPlayerTurn(Cur, rl, rd))

NextAct ==
  \/ ActItem
  \/ ActMove
  \/ ActEnemyTurn
  \/ ActPlayerTurn
  \/ OnPlayerAttackComplete
  \/ OnEnemyShakeComplete
  \/ OnItemDone
  \/ OnEnemyTurn
  \/ OnTransitionToPlayerTurn

SpecAct == InitAct /\ [][NextAct]_vars

\* ------------------------------------------------------------------ the XP grant
\* Victory handling as a function of the player's record and the opponent's rewards:
\* the battle is about to handle a victory, with the record and the rewards drawn.
XpLevels == {5, 6, 7}
XpValues == {0, 10, 480, 499, 599}
XpRewards == {0, 20, 30, 80, 120, 620, 1100}
XpVibes == {12, 100}

XpThresholds(level) == {0, IF level = 5 THEN 500 ELSE level * 100}

XpPlayers ==
  { [DEFAULT_PLAYER_MEMORY EXCEPT !.level = l, !.xp = x, !.xpToNextLevel = t,
                                  !.maxVibe = 100 + 10 * (l - 5), !.currentVibe = v] :
      <<l, x, t, v>> \in { q \in XpLevels \X XpValues \X {0, 500, 600, 700} \X XpVibes :
                             q[3] \in XpThresholds(q[1]) /\ (q[3] = 0 \/ q[2] < q[3]) } }

XpEnemies ==
  { [createEnemyInstance("mondayBlues") EXCEPT !.currentStress = 0, !.xpReward = g] :
      g \in XpRewards }

InitXp ==
  /\ scene = [state |-> "PLAYER_ACTION", isAnimating |-> TRUE, isTyping |-> FALSE,
              textQueue |-> 0, currentMenuIndex |-> 0, currentMoveIndex |-> 0,
              currentItemIndex |-> 0, droppedMemory |-> "null"]
  /\ rhythm = [isRunning |-> FALSE, callback |-> "NONE"]
  /\ enemy \in XpEnemies
  /\ playerMemory \in XpPlayers
  /\ arrays = [a \in {PlayerArray, EnemyArray} |-> <<>>]
  /\ gameState = [inventory |-> InitInventory, collectedMemories |-> InitCollected,
                  isReadyForFinale |-> FALSE]
  /\ world = [phase |-> "battle", playerMemory |-> playerMemory, battles |-> 1]
  /\ timers = <<>>
  /\ obs = [ev |-> "init", victories |-> 0, ends |-> 0, commands |-> 0,
            run |-> "none"]

XpVictory ==
  /\ InBattle
  /\ obs.victories = 0
  /\ \E r \in RandomDraws : Commit(handleVictory(Cur, r))

NextXp == XpVictory

SpecXp == InitXp /\ [][NextXp]_vars

\* ------------------------------------------------------------------ the memory drop
\* Victories and collectMemory calls on a drawn collection: the first k memories of the
\* catalog are collected, and the battle is about to handle a victory.
MaxDropVictories == 3
DropDraws == {0, 50, 99}

InitDrop ==
  /\ scene = [state |-> "PLAYER_ACTION", isAnimating |-> TRUE, isTyping |-> FALSE,
              textQueue |-> 0, currentMenuIndex |-> 0, currentMoveIndex |-> 0,
              currentItemIndex |-> 0, droppedMemory |-> "null"]
  /\ rhythm = [isRunning |-> FALSE, callback |-> "NONE"]
  /\ enemy = [createEnemyInstance("mondayBlues") EXCEPT !.currentStress = 0]
  /\ playerMemory \in InitPlayers
  /\ arrays = [a \in {PlayerArray, EnemyArray} |-> <<>>]
  /\ \E k \in 0..Len(AllMemories) :
        gameState = [inventory |-> InitInventory, collectedMemories |-> SubSeq(AllMemories, 1, k),
                     isReadyForFinale |-> FALSE]
  /\ world = [phase |-> "battle", playerMemory |-> playerMemory, battles |-> 1]
  /\ timers = <<>>
  /\ obs = [ev |-> "init", victories |-> 0, ends |-> 0, commands |-> 0,
            run |-> "none"]

DropVictory ==
  /\ InBattle
  /\ obs.victories < MaxDropVictories
  /\ \E r \in DropDraws : Commit(handleVictory(Cur, r))

DropCollect ==
  \E id \in {AllMemories[i] : i \in 1..Len(AllMemories)} :
     Commit([Cur EXCEPT !.gameState = collectMemory(@, id), !.obs.ev = "collectMemory"])

NextDrop ==
  \/ DropVictory
  \/ DropCollect
  \/ OnShowMemoryDropPopup

SpecDrop == InitDrop /\ [][NextDrop]_vars

\* ------------------------------------------------------------------ the battle entry
\* BattleScene.init on the data of scene.launch: each field is a sequence that is empty
\* when the field is missing; create() then starts the intro.
initScene(m, data) ==
  LET foe == IF Len(data.enemy) > 0 THEN data.enemy[1] ELSE createEnemyInstance("workStress")
      pm == IF Len(data.playerMemory) > 0 THEN data.playerMemory[1] ELSE DEFAULT_PLAYER_MEMORY
  IN  delayedCall(
        [m EXCEPT !.enemy = foe,
                  !.arrays[foe.activeStatuses] = <<>>,
                  !.playerMemory = pm,
                  !.scene.state = "INTRO", !.scene.currentMenuIndex = 0,
                  !.scene.currentMoveIndex = 0, !.scene.isAnimating = FALSE,
                  !.scene.textQueue = 0, !.scene.isTyping = FALSE,
                  !.rhythm = [isRunning |-> FALSE, callback |-> "NONE"],
                  !.world.phase = "battle", !.world.battles = @ + 1,
                  !.obs = [ev |-> "init", victories |-> 0, ends |-> 0,
                           commands |-> m.obs.commands, run |-> "none"]],
        "introComplete", 5)

\* Opponent ids asked of createEnemyInstance: the catalogue and two ids outside it.
EntryIds == DOMAIN STRESS_ENEMIES \cup {"examStress", "undefined"}

EntryPlayers ==
  { DEFAULT_PLAYER_MEMORY,
    [DEFAULT_PLAYER_MEMORY EXCEPT !.currentVibe = 12, !.xp = 480],
    [DEFAULT_PLAYER_MEMORY EXCEPT !.maxVibe = 110, !.currentVibe = 60, !.level = 6] }

\* The world with an encounter pending: the id the opponent will be made from and the
\* fields the battle data will carry travel with the timer.
InitEntry ==
  \E pm \in EntryPlayers, id \in EntryIds, fields \in SUBSET {"enemy", "playerMemory"} :
     \E m \in {[Overworld(pm) EXCEPT !.world.phase = "world", !.world.battles = 0]} :
        /\ scene = m.scene
        /\ rhythm = m.rhythm
        /\ enemy = m.enemy
        /\ playerMemory = m.playerMemory
        /\ arrays = m.arrays
        /\ gameState = m.gameState
        /\ world = m.world
        /\ timers = << [Timer("encounter", 5, "NONE", 0, "NONE") EXCEPT !.move = id,
                                                                        !.result = fields] >>
        /\ obs = m.obs

\* The battle data is built and the launch is scheduled.
OnEncounter ==
  \E i \in 1..Len(timers) :
     /\ Due(i, "encounter")
     /\ Commit([Fired(i) EXCEPT !.timers = Append(@,
           [cb |-> "launch", rem |-> 3, move |-> timers[i].move, damage |-> 0, result |-> "NONE",
            data |-> [enemy |-> IF "enemy" \in timers[i].result
                                THEN <<createEnemyInstance(timers[i].move)>> ELSE <<>>,
                      playerMemory |-> IF "playerMemory" \in timers[i].result
                                       THEN <<world.playerMemory>> ELSE <<>>]])])

OnLaunch ==
  \E i \in 1..Len(timers) : Due(i, "launch") /\ Commit(initScene(Fired(i), timers[i].data))

EntryConfirm ==
  /\ InBattle
  /\ scene.state = "INTRO"
  /\ \E r \in RandomDraws : Commit(keyConfirm(Cur, "MISS", r))

NextEntry ==
  OnEncounter \/ OnLaunch \/ OnIntroComplete \/ TypewriterDone \/ EntryConfirm

SpecEntry == InitEntry /\ [][NextEntry]_vars

\* ------------------------------------------------------------------ properties
Terminal == {"VICTORY", "DEFEAT", "RUN_AWAY"}

Sides == {"player", "enemy"}

\* C1: in every reachable state of a battle the player's vibe lies in 0..maxVibe and
\* the opponent's stress lies in 0..maxStress.
C1_ResourcesInRange ==
  InBattle => /\ 0 <= playerMemory.currentVibe
              /\ playerMemory.currentVibe <= playerMemory.maxVibe
              /\ 0 <= enemy.currentStress
              /\ enemy.currentStress <= enemy.maxStress

\* An enemy attack that would take the vibe below zero has just been resolved.
C1_Witness ==
  InBattle /\ obs.ev = "enemyAttackComplete" /\ playerMemory.currentVibe = 0

\* C2: once a resolved move or item use has left the opponent's stress at 0 or below,
\* no enemy turn starts in that battle.
C2_NoEnemyTurnOnceCalm ==
  ~(InBattle /\ enemy.currentStress <= 0 /\ obs.ev = "enemyTurn")

\* C3: while an enemy attack has left the player's vibe at 0, the battle does not
\* go to PLAYER_TURN: the next state is DEFEAT.
C3_DefeatFollowsZeroVibe ==
  InBattle /\ playerMemory.currentVibe = 0 => scene.state # "PLAYER_TURN"

\* The battle is in a terminal state, no timer is pending, endBattle was never called
\* and a confirm press changes nothing.
ConfirmIgnored ==
  /\ InBattle
  /\ scene.state \in Terminal \cup {"MEMORY_DROP"}
  /\ Len(timers) = 0
  /\ obs.ends = 0
  /\ \A result \in RhythmResults, r \in RandomDraws : keyConfirm(Cur, result, r) = Cur

\* C4: the battle is never stuck in a terminal state with confirm ignored.
C4_NeverStuckInTerminal == ~ConfirmIgnored

\* C5: once the battle state is VICTORY, DEFEAT or RUN_AWAY it keeps that state for
\* the rest of the battle, except that VICTORY may become MEMORY_DROP.
C5_TerminalAbsorbing ==
  [][ (InBattle /\ world'.phase = "battle" /\ scene.state \in Terminal)
        => \/ scene'.state = scene.state
           \/ scene.state = "VICTORY" /\ scene'.state = "MEMORY_DROP" ]_vars

NoDuplicateKinds(s) == \A i, j \in 1..Len(s) : s[i].id = s[j].id => i = j

\* applyStatus of a kind that is active keeps every entry and sets that entry's
\* duration to the default.
RefreshOnly(target, statusId) ==
  LET old == Statuses(Cur, target)
      new == Statuses(applyStatus(Cur, target, statusId), target)
  IN  hasStatus(Cur, target, statusId)
        => /\ Len(new) = Len(old)
           /\ \A i \in 1..Len(old) :
                 new[i] = IF old[i].id = statusId
                          THEN [old[i] EXCEPT !.duration = DefaultDuration] ELSE old[i]

\* C8: each combatant holds at most one status entry of a kind, and applyStatus of an
\* active kind adds no entry and only sets that entry's duration to 2.
C8_OneEntryPerKind ==
  \A target \in Sides :
     /\ NoDuplicateKinds(Statuses(Cur, target))
     /\ \A statusId \in StatusTypes : RefreshOnly(target, statusId)

\* The player's INSPIRED, already active, has just been applied again.
C8_Witness ==
  /\ InBattle
  /\ obs.ev = "refreshStatus"
  /\ Statuses(Cur, "player") = <<[id |-> "INSPIRED", duration |-> DefaultDuration]>>

\* Every entry one turn older, the expired ones removed.
Decayed(s) ==
  SelectSeq([i \in 1..Len(s) |-> [s[i] EXCEPT !.duration = @ - 1]], LAMBDA e : e.duration >= 1)

\* One entry of duration 2 appended, or one entry's duration set to 2.
Applied(old, new) ==
  \/ /\ Len(new) = Len(old) + 1
     /\ SubSeq(new, 1, Len(old)) = old
     /\ new[Len(new)].duration = DefaultDuration
  \/ /\ Len(new) = Len(old)
     /\ \A i \in 1..Len(old) :
           new[i].id = old[i].id /\ new[i].duration \in {old[i].duration, DefaultDuration}

TurnStart(side) == IF side = "player" THEN "transitionToPlayerTurn" ELSE "enemyTurn"

\* C9: a combatant's statuses are decremented once, and removed at zero, at the start
\* of that combatant's own turn; nothing else lowers a duration, and a cancel changes
\* no combatant field and no status.
C9_DecayAtOwnTurnStart ==
  [][ (InBattle /\ world'.phase = "battle")
        => /\ \A side \in Sides :
                LET old == Statuses(Cur, side)
                    new == arrays'[StatusRef(Cur, side)]
                IN  /\ (obs'.ev = TurnStart(side) /\ obs.ev # TurnStart(side))
                          => new = Decayed(old)
                    /\ new # old
                          => \/ obs'.ev = TurnStart(side) /\ new = Decayed(old)
                             \/ obs'.ev \in {"applyStatus", "refreshStatus"} /\ Applied(old, new)
           /\ handleCancel(Cur).playerMemory = playerMemory
           /\ handleCancel(Cur).enemy = enemy
           /\ handleCancel(Cur).arrays = arrays ]_vars

\* The player's INSPIRED, applied with duration 2, is one turn older at the start of
\* the player's next turn.
C9_Witness ==
  /\ InBattle
  /\ obs.ev = "transitionToPlayerTurn"
  /\ Statuses(Cur, "player") = <<[id |-> "INSPIRED", duration |-> 1]>>

\* C6: the battle leaves MINIGAME only for PLAYER_ACTION, on the delivery of the
\* timing check's outcome.
C6_MinigameLeavesForPlayerAction ==
  [][ (InBattle /\ world'.phase = "battle" /\ scene.state = "MINIGAME")
        => scene'.state \in {"MINIGAME", "PLAYER_ACTION"} ]_vars

NoForeignTimer == \A i \in 1..Len(timers) : timers[i].cb \notin {"itemDone", "enemyTurn"}

\* C7: under fairness every battle of comfort moves reaches VICTORY, DEFEAT or RUN_AWAY,
\* and each resolved move lowers the opponent's stress by at least 1.
C7_EveryBattleEnds ==
  /\ (InBattle /\ scene.state = "INTRO") ~> (scene.state \in Terminal)
  /\ [][ (obs'.ev = "playerAttackComplete" /\ obs.ev # "playerAttackComplete")
           => enemy'.currentStress <= enemy.currentStress - 1 ]_vars

\* A battle has been won by the fourth comfort move of the run.
C7_Witness ==
  /\ InBattle
  /\ scene.state = "VICTORY"
  /\ obs.commands = 4
  /\ NoForeignTimer

C12_GrantAndLevelUp ==
  [][ (obs'.ev = "handleVictory" /\ obs.ev # "handleVictory"
         /\ enemy.xpReward > 0 /\ playerMemory.xp < playerMemory.xpToNextLevel)
        => LET g == enemy.xpReward
               old == playerMemory
               new == playerMemory'
           IN  /\ old.xp + g < old.xpToNextLevel
                     => /\ new.xp = old.xp + g
                        /\ new.level = old.level
                        /\ new.maxVibe = old.maxVibe
                        /\ new.xpToNextLevel = old.xpToNextLevel
               /\ (old.xpToNextLevel <= old.xp + g
                     /\ old.xp + g < old.xpToNextLevel + (old.level + 1) * 100)
                     => /\ new.xp = old.xp + g - old.xpToNextLevel
                        /\ new.level = old.level + 1
                        /\ new.xpToNextLevel = new.level * 100
                        /\ new.maxVibe = old.maxVibe + 10
                        /\ new.currentVibe = new.maxVibe ]_vars

\* Level 5 with xp 480 of 500 has been granted 30 XP.
C12_Witness ==
  /\ obs.ev = "handleVictory"
  /\ enemy.xpReward = 30
  /\ playerMemory.level = 6
  /\ playerMemory.xp = 10
  /\ playerMemory.xpToNextLevel = 600
  /\ playerMemory.maxVibe = 110
  /\ playerMemory.currentVibe = 110

\* C13: victory handling enters VICTORY, restores vibe by vibeReward capped at maxVibe and
\* adds xpReward to xp before the level-up check; no other step of a battle (defeat, a
\* successful RUN, anything else) changes xp or level, and the overworld's record takes
\* them only from the battle's record.
C13_RewardsOnlyOnVictory ==
  [][ LET old == playerMemory
          new == playerMemory'
          total == old.xp + enemy.xpReward
      IN  IF obs'.victories = obs.victories + 1
          THEN /\ scene'.state = "VICTORY"
               /\ IF total < old.xpToNextLevel
                  THEN /\ new.xp = total
                       /\ new.level = old.level
                       /\ new.currentVibe = Min(old.maxVibe, old.currentVibe + enemy.vibeReward)
                  ELSE /\ new.xp = total - old.xpToNextLevel
                       /\ new.level = old.level + 1
          ELSE /\ new.xp = IF world.phase = "world" THEN world.playerMemory.xp ELSE old.xp
               /\ new.level = IF world.phase = "world" THEN world.playerMemory.level
                                                        ELSE old.level
               /\ world'.playerMemory.xp \in {world.playerMemory.xp, old.xp}
               /\ world'.playerMemory.level \in {world.playerMemory.level, old.level} ]_vars

\* A second battle has been won without a level-up: 0 + 20 XP at level 6.
C13_Witness ==
  /\ obs.ev = "handleVictory"
  /\ scene.state = "VICTORY"
  /\ world.battles = 2
  /\ playerMemory.level = 6
  /\ playerMemory.xp = 20

\* C14: victory handling is applied at most once per battle.
C14_VictoryHandledOnce == obs.victories <= 1

\* C15: the collected list never holds an id twice; collectMemory on a collected id
\* returns false and leaves the list as it is; a victory that drops a memory drops one
\* that was not collected and appends it, and a victory that drops none changes nothing.
C15_DropsAreNew ==
  /\ [](\A i, j \in 1..Len(gameState.collectedMemories) :
          gameState.collectedMemories[i] = gameState.collectedMemories[j] => i = j)
  /\ [](\A i \in 1..Len(AllMemories) :
          hasCollected(gameState, AllMemories[i])
             => /\ ~collectMemoryReturns(gameState, AllMemories[i])
                /\ collectMemory(gameState, AllMemories[i]) = gameState)
  /\ [][ obs'.victories = obs.victories + 1
           => IF Len(Uncollected(gameState)) > 0
              THEN /\ ~hasCollected(gameState, scene'.droppedMemory)
                   /\ gameState'.collectedMemories
                         = Append(gameState.collectedMemories, scene'.droppedMemory)
              ELSE /\ gameState' = gameState
                   /\ scene'.droppedMemory = scene.droppedMemory ]_vars

\* Three victories in a row: the last two memories were dropped, then nothing was.
C15_Witness ==
  /\ obs.ev = "handleVictory"
  /\ obs.victories = 3
  /\ gameState.collectedMemories = AllMemories
  /\ scene.droppedMemory = AllMemories[Len(AllMemories)]

\* C16: once the battle has exited with every memory of the catalog collected, the
\* flag isReadyForFinale is set.
C16_FinaleSignalled ==
  (world.phase = "world" /\ getCollectedCount(gameState) = Len(AllMemories))
     => gameState.isReadyForFinale

\* C17: endBattle is never invoked from VICTORY while the popup of a dropped memory is
\* still pending, and while the battle lasts MEMORY_DROP is never left for another state.
C17_DropShownBeforeExit ==
  [][ /\ (obs'.ends = obs.ends + 1 /\ scene.state = "VICTORY")
           => \A i \in 1..Len(timers) : timers[i].cb # "showMemoryDropPopup"
      /\ (scene.state = "MEMORY_DROP" /\ InBattle /\ world'.phase = "battle")
           => scene'.state = "MEMORY_DROP" ]_vars

\* The player's currentVibe, maxVibe, level, xp and statuses are the same in both machines.
SamePlayer(a, b) ==
  /\ a.playerMemory.currentVibe = b.playerMemory.currentVibe
  /\ a.playerMemory.maxVibe = b.playerMemory.maxVibe
  /\ a.playerMemory.level = b.playerMemory.level
  /\ a.playerMemory.xp = b.playerMemory.xp
  /\ Statuses(a, "player") = Statuses(b, "player")

Stepped == [Cur EXCEPT !.playerMemory = playerMemory', !.arrays = arrays']

\* C18: from a successful RUN until the battle exits, the player's currentVibe, maxVibe,
\* level, xp and statuses and the opponent's currentStress are not modified.
C18_RunAwayChangesNothing ==
  [][ (obs.run = "away" /\ InBattle /\ world'.phase = "battle")
        => SamePlayer(Cur, Stepped) /\ enemy'.currentStress = enemy.currentStress ]_vars

\* C19: the failed RUN attempt leaves the player's currentVibe, maxVibe, level, xp and
\* statuses unchanged, and until the enemy turn that it caused has started the battle
\* state does not change except to ENEMY_TURN.
C19_EnemyTurnFollowsFailedRun ==
  [][ /\ (obs'.run = "failed" /\ obs'.commands = obs.commands + 1) => SamePlayer(Cur, Stepped)
      /\ (obs.run = "failed" /\ InBattle /\ world'.phase = "battle")
           => scene'.state \in {scene.state, "ENEMY_TURN"} ]_vars

Scheduled(cb, rem) == \E i \in 1..Len(timers') : timers'[i].cb = cb /\ timers'[i].rem = rem

\* The side holds a skip-chance status when its turn starts (before this turn's decay).
MaySkip(side) ==
  \E i \in 1..Len(Statuses(Cur, side)) :
     /\ Statuses(Cur, side)[i].id \in {"LAUGHING", "DISTRACTED"}
     /\ Statuses(Cur, side)[i].duration > 1

\* C21: a turn start of the player that does not give the player the menu is a skipped
\* turn: the player holds a skip-chance status, neither side's resource changes (no
\* passive heal) and the enemy turn is scheduled; an enemy turn that resolves neither an
\* attack nor a confused hug is a skipped turn: the opponent holds a skip-chance status,
\* neither side's resource changes and the player's turn is scheduled.
C21_SkippedTurnDoesNothing ==
  [][ /\ (obs'.ev = "transitionToPlayerTurn" /\ obs.ev # obs'.ev /\ scene'.state # "PLAYER_TURN")
           => /\ MaySkip("player")
              /\ playerMemory'.currentVibe = playerMemory.currentVibe
              /\ enemy'.currentStress = enemy.currentStress
              /\ scene'.state = scene.state
              /\ Scheduled("enemyTurn", 15)
      /\ (obs'.ev = "enemyTurn" /\ obs.ev # obs'.ev
             /\ ~Scheduled("enemyAttackComplete", 4) /\ ~Scheduled("transitionToPlayerTurn", 20))
           => /\ MaySkip("enemy")
              /\ playerMemory'.currentVibe = playerMemory.currentVibe
              /\ enemy'.currentStress = enemy.currentStress
              /\ scene'.state = "ENEMY_TURN"
              /\ Scheduled("transitionToPlayerTurn", 15) ]_vars

\* The turn of a player who is LAUGHING and PROUD has been skipped: vibe is still 12 and
\* the enemy turn is pending.
C21_Witness ==
  /\ obs.ev = "transitionToPlayerTurn"
  /\ scene.state = "ENEMY_TURN"
  /\ hasStatus(Cur, "player", "LAUGHING")
  /\ hasStatus(Cur, "player", "PROUD")
  /\ playerMemory.currentVibe = 12
  /\ \E i \in 1..Len(timers) : timers[i].cb = "enemyTurn"

\* C22: an enemy turn that ends in the confused hug is the turn of an opponent holding
\* CONFUSED: the player's vibe becomes min(maxVibe, vibe + 10), no attack is scheduled,
\* the opponent's stress is unchanged and the player's turn is scheduled.
C22_ConfusedHugHelps ==
  [][ (obs'.ev = "enemyTurn" /\ obs.ev # obs'.ev /\ Scheduled("transitionToPlayerTurn", 20))
        => /\ hasStatus(Cur, "enemy", "CONFUSED")
           /\ playerMemory'.currentVibe = Min(playerMemory.maxVibe, playerMemory.currentVibe + 10)
           /\ playerMemory'.currentVibe >= playerMemory.currentVibe
           /\ enemy'.currentStress = enemy.currentStress
           /\ ~Scheduled("enemyAttackComplete", 4)
           /\ ~Scheduled("handleDefeat", 15) ]_vars

\* A confused opponent hugged a player at vibe 95 of 100, and the player's turn came.
C22_Witness ==
  /\ obs.ev = "transitionToPlayerTurn"
  /\ scene.state = "PLAYER_TURN"
  /\ hasStatus(Cur, "enemy", "CONFUSED")
  /\ Len(Statuses(Cur, "player")) = 0
  /\ playerMemory.currentVibe = 100
  /\ Len(timers) = 0

\* C23: the attack of an opponent that holds INSPIRED when it attacks is doubled: it is
\* at least twice the smallest unmodified damage of its attackPower (and a player's move
\* resolved while the player holds INSPIRED and not TIRED is an even amount).
C23_InspiredDoublesEveryAction ==
  [][ /\ (obs'.ev = "enemyTurn" /\ obs.ev # obs'.ev /\ hasStatus(Stepped, "enemy", "INSPIRED"))
           => \A i \in 1..Len(timers') :
                 (timers'[i].cb = "enemyAttackComplete" /\ timers'[i].rem = 4)
                    => timers'[i].damage >= 2 * calculateDamage(enemy.attackPower, 0)
      /\ (obs'.ev = "handleActionCommandResult" /\ obs.ev # obs'.ev
             /\ hasStatus(Cur, "player", "INSPIRED") /\ ~hasStatus(Cur, "player", "TIRED"))
           => \A i \in 1..Len(timers') :
                 (timers'[i].cb = "playerAttackComplete" /\ timers'[i].rem = 3)
                    => timers'[i].damage % 2 = 0 ]_vars

\* The turns left of the player's INSPIRED entry in machine m, 0 when there is none.
InspiredLeft(m) ==
  IF hasStatus(m, "player", "INSPIRED")
  THEN Statuses(m, "player")[CHOOSE i \in 1..Len(Statuses(m, "player")) :
                                Statuses(m, "player")[i].id = "INSPIRED"].duration
  ELSE 0

\* C24: the INSPIRED entry of the player keeps its duration in every step, the steps
\* that resolve a move included, except that the start of the player's turn takes one
\* turn off it and the end of a move whose selfStatus is INSPIRED sets it to 2.
C24_InspiredOutlivesItsUse ==
  [][ InspiredLeft(Cur) > 0
        => \/ InspiredLeft(Stepped) = InspiredLeft(Cur)
           \/ /\ obs'.ev = "transitionToPlayerTurn"
              /\ InspiredLeft(Stepped) = InspiredLeft(Cur) - 1
           \/ /\ obs'.ev \in {"applyStatus", "refreshStatus"}
              /\ InspiredLeft(Stepped) = DefaultDuration
              /\ \E i \in 1..Len(timers) :
                    /\ timers[i].cb = "enemyShakeComplete"
                    /\ MoveOf(timers[i].move).selfStatus = "INSPIRED" ]_vars

\* A hug has been resolved to its end by a player who held INSPIRED with one turn left,
\* and the entry is still there.
C24_Witness ==
  /\ obs.ev = "enemyShakeComplete"
  /\ rhythm.callback = "hug"
  /\ InspiredLeft(Cur) = 1

\* The timer of callback cb that is due in the current state.
DueTimer(cb) == timers[CHOOSE i \in 1..Len(timers) : Due(i, cb)]

IsDue(cb) == \E i \in 1..Len(timers) : Due(i, cb)

\* C25: a resolved move lowers the opponent's stress by its amount, floored at 0, when
\* the attack lands, and the player's vibe changes only at the end of a move of type
\* heal, where it rises by round(amount * 0.3) capped at maxVibe.
C25_HealMoveAlsoRestores ==
  [][ /\ (obs'.ev = "handleActionCommandResult" /\ obs.ev # obs'.ev)
           => /\ playerMemory'.currentVibe = playerMemory.currentVibe
              /\ enemy'.currentStress = enemy.currentStress
      /\ (obs'.ev = "playerAttackComplete" /\ obs.ev # obs'.ev /\ IsDue("playerAttackComplete"))
           => /\ enemy'.currentStress
                   = Max(0, enemy.currentStress - DueTimer("playerAttackComplete").damage)
              /\ playerMemory'.currentVibe = playerMemory.currentVibe
      /\ (obs.ev = "playerAttackComplete" /\ obs.ev # obs'.ev /\ IsDue("enemyShakeComplete"))
           => LET t == DueTimer("enemyShakeComplete")
              IN  /\ enemy'.currentStress = enemy.currentStress
                  /\ playerMemory'.currentVibe =
                       IF MoveOf(t.move).type = "heal"
                       THEN Min(playerMemory.maxVibe,
                                playerMemory.currentVibe + RoundDiv(3 * t.damage, 10))
                       ELSE playerMemory.currentVibe ]_vars

\* Gentle Words has been resolved: the opponent's stress is floored at 0 and the player,
\* who was at 95 of 100, is at the cap.
C25_Witness ==
  /\ rhythm.callback = "words"
  /\ hasStatus(Cur, "player", "PROUD")
  /\ \E i \in 1..Len(timers) : timers[i].cb = "actionVictory"
  /\ enemy.currentStress = 0
  /\ playerMemory.currentVibe = 100

Holds(statuses, id, duration) ==
  \E i \in 1..Len(statuses) : statuses[i].id = id /\ statuses[i].duration = duration

Unmodified == ~hasStatus(Cur, "player", "INSPIRED") /\ ~hasStatus(Cur, "player", "TIRED")

RoundedOnce(p, r, num, den) == RoundDiv(p * (800 + 4 * r) * num, 1000 * den)

\* C28: the amount of a player's move resolved with no status modifier is
\* round(p * v * m) for some variance v of the draw, rounded once after the timing
\* multiplier m (1.5 for PERFECT, 1.2 for GOOD, 0.8 for MISS).
C28_MultiplierBeforeRounding ==
  [][ (obs'.ev = "handleActionCommandResult" /\ obs.ev # obs'.ev /\ Unmodified)
        => \A i \in 1..Len(timers') :
              (timers'[i].cb = "playerAttackComplete" /\ timers'[i].rem = 3)
                 => LET power == MoveOf(timers'[i].move).power
                        result == timers'[i].result
                    IN  \E r \in 0..99 :
                           timers'[i].damage =
                             IF result = "PERFECT" THEN RoundedOnce(power, r, 3, 2)
                             ELSE IF result = "GOOD" THEN RoundedOnce(power, r, 6, 5)
                             ELSE RoundedOnce(power, r, 4, 5) ]_vars

\* The inventory entry under the item cursor, when the item menu is confirmed.
Selected == gameState.inventory[scene.currentItemIndex + 1]

\* The confirmed entry can be used: it exists, its item is defined and a unit is left.
Usable ==
  /\ Len(gameState.inventory) > 0
  /\ HasItem(Selected.id)
  /\ Selected.count >= 1

\* C29: using an item takes exactly one unit of it and of nothing else; a heal item
\* raises the player's vibe by its value up to maxVibe and leaves the opponent, a comfort
\* item lowers the opponent's stress by its value down to 0 and leaves the player, a
\* special item does both; when the pause ends, an opponent at 0 stress is a victory
\* with no enemy turn, and otherwise the enemy turn starts.
C29_ItemUse ==
  [][ /\ (obs'.ev = "useItem" /\ obs.ev # obs'.ev /\ scene.state = "PLAYER_SELECTING_ITEM")
           => LET item == ItemOf(Selected.id)
                  heals == item.type \in {"heal", "special"}
                  calms == item.type \in {"comfort", "special"}
              IN  /\ Usable
                  /\ getItemCount(gameState', item.id) = Selected.count - 1
                  /\ \A i \in 1..Len(gameState.inventory) :
                        gameState.inventory[i].id # item.id
                           => getItemCount(gameState', gameState.inventory[i].id)
                                 = gameState.inventory[i].count
                  /\ Len(gameState'.inventory)
                        = Len(gameState.inventory) - (IF Selected.count = 1 THEN 1 ELSE 0)
                  /\ playerMemory'.currentVibe =
                        IF heals THEN Min(playerMemory.maxVibe, playerMemory.currentVibe + item.value)
                        ELSE playerMemory.currentVibe
                  /\ enemy'.currentStress =
                        IF calms THEN Max(0, enemy.currentStress - item.value)
                        ELSE enemy.currentStress
      /\ (obs.ev = "useItem" /\ obs.ev # obs'.ev /\ IsDue("itemDone"))
           => IF enemy.currentStress <= 0
              THEN /\ obs'.victories = obs.victories + 1
                   /\ scene'.state = "VICTORY"
                   /\ \A i \in 1..Len(timers') : timers'[i].cb # "enemyAttackComplete"
              ELSE /\ obs'.victories = obs.victories
                   /\ obs'.ev = "enemyTurn"
                   /\ scene'.state = "ENEMY_TURN" ]_vars

\* The special item has been used by a player at 12 on an opponent at 10: the player is
\* at 27, the opponent at 0, and the last unit has left the inventory.
C29_Witness ==
  /\ obs.ev = "useItem"
  /\ getItemCount(gameState, "picnic") = 0
  /\ Len(gameState.inventory) = 1
  /\ playerMemory.currentVibe = 27
  /\ enemy.currentStress = 0

\* C30: confirming the item menu when the inventory is empty, the entry's item has no
\* definition or no unit of it is left changes nothing (the state stays
\* PLAYER_SELECTING_ITEM and no timer is set), and no step makes a count negative.
C30_UnusableItemIsNoOp ==
  [][ /\ (scene.state = "PLAYER_SELECTING_ITEM" /\ ~Usable)
           => /\ scene' = scene
              /\ enemy' = enemy
              /\ playerMemory' = playerMemory
              /\ arrays' = arrays
              /\ gameState' = gameState
              /\ timers' = timers
      /\ \A i \in 1..Len(gameState'.inventory) : gameState'.inventory[i].count >= 0 ]_vars

\* The menu was confirmed on an entry with no unit left, and nothing followed.
C30_Witness ==
  /\ obs.ev = "confirmIgnored"
  /\ scene.state = "PLAYER_SELECTING_ITEM"
  /\ Len(gameState.inventory) > 0
  /\ HasItem(Selected.id)
  /\ Selected.count = 0
  /\ Len(timers) = 0

\* C31: an opponent made from an id outside the catalogue is the workStress opponent at
\* full stress, and a launch starts the battle in INTRO with the opponent and the player
\* of its data, or with the workStress opponent and the default player memory where the
\* data lacks them; the opponent's statuses are empty.
C31_MissingEntryFallsBack ==
  [][ /\ (IsDue("encounter") /\ timers' # timers)
           => \A i \in 1..Len(timers') :
                 (timers'[i].cb = "launch" /\ Len(timers'[i].data.enemy) > 0)
                    => LET foe == timers'[i].data.enemy[1]
                           id == DueTimer("encounter").move
                       IN  /\ foe.currentStress = foe.maxStress
                           /\ id \in DOMAIN STRESS_ENEMIES
                                 => foe.id = id /\ foe.maxStress = STRESS_ENEMIES[id].maxStress
                           /\ id \notin DOMAIN STRESS_ENEMIES
                                 => /\ foe.id = "workStress"
                                    /\ foe.maxStress = STRESS_ENEMIES.workStress.maxStress
                                    /\ foe.attackPower = STRESS_ENEMIES.workStress.attackPower
      /\ (IsDue("launch") /\ timers' # timers)
           => LET data == DueTimer("launch").data
              IN  /\ scene'.state = "INTRO"
                  /\ world'.phase = "battle"
                  /\ Len(arrays'[enemy'.activeStatuses]) = 0
                  /\ enemy'.currentStress = enemy'.maxStress
                  /\ enemy' = IF Len(data.enemy) > 0 THEN data.enemy[1]
                              ELSE STRESS_ENEMIES.workStress
                                     @@ [currentStress |-> 50, activeStatuses |-> EnemyArray]
                  /\ playerMemory' = IF Len(data.playerMemory) > 0 THEN data.playerMemory[1]
                                     ELSE DEFAULT_PLAYER_MEMORY ]_vars

\* A battle launched with no data, by a player whose record is not the default one, has
\* reached the player's turn with the workStress opponent and the default player memory.
C31_Witness ==
  /\ world.phase = "battle"
  /\ scene.state = "PLAYER_TURN"
  /\ world.playerMemory # DEFAULT_PLAYER_MEMORY
  /\ playerMemory = DEFAULT_PLAYER_MEMORY
  /\ enemy.id = "workStress"
  /\ enemy.currentStress = 50

\* The resource pool and the progression of two player records agree.
SameProgress(a, b) ==
  /\ a.currentVibe = b.currentVibe
  /\ a.maxVibe = b.maxVibe
  /\ a.level = b.level
  /\ a.xp = b.xp
  /\ a.xpToNextLevel = b.xpToNextLevel

\* C32: when a battle exits the world's record of the player takes the vibe, maxVibe,
\* level, xp and xpToNextLevel the player has in the battle at that moment, the record
\* does not change while the world is awake, and the next battle starts with it.
C32_ProgressPersists ==
  [][ /\ (world.phase = "battle" /\ world'.phase = "world")
           => SameProgress(world'.playerMemory, playerMemory)
      /\ (world.phase = "world" /\ world'.phase = "world")
           => world'.playerMemory = world.playerMemory
      /\ (world.phase = "world" /\ world'.phase = "battle")
           => SameProgress(playerMemory', world.playerMemory) ]_vars

\* The second battle has started with the level the player reached in the first.
C32_Witness ==
  /\ world.phase = "battle"
  /\ world.battles = 2
  /\ obs.ev = "init"
  /\ playerMemory.level = 6
  /\ playerMemory.maxVibe = 110
  /\ playerMemory.xp = 0

\* C33: the move cursor is always a position of the player's move list and, in the item
\* menu of a stocked inventory, the item cursor is a position of the inventory; the
\* move that is executed is the defined move under the cursor, and the item that is
\* used is the defined inventory entry under the cursor.
C33_SelectionInRange ==
  [][ /\ scene'.currentMoveIndex \in 0..(Len(playerMemory'.moves) - 1)
      /\ (scene'.state = "PLAYER_SELECTING_ITEM" /\ Len(gameState'.inventory) > 0)
           => scene'.currentItemIndex \in 0..(Len(gameState'.inventory) - 1)
      /\ (obs'.ev = "executePlayerMove" /\ obs.ev # obs'.ev)
           => /\ rhythm'.callback = playerMemory.moves[scene.currentMoveIndex + 1]
              /\ rhythm'.callback \in DOMAIN MOVES
      /\ (obs'.ev = "useItem" /\ obs'.commands = obs.commands + 1)
           => /\ scene.currentItemIndex \in 0..(Len(gameState.inventory) - 1)
              /\ HasItem(Selected.id)
              /\ getItemCount(gameState', Selected.id) = Selected.count - 1 ]_vars

\* The second item of the battle was used from the last position of an inventory that
\* the first use had shortened.
C33_Witness ==
  /\ obs.ev = "useItem"
  /\ obs.commands = 2
  /\ scene.currentItemIndex = 1
  /\ Len(gameState.inventory) = 1
  /\ getItemCount(gameState, "flower") = 2

\* The callbacks of a turn sequence: from the player's action to the next player turn.
TurnCallbacks ==
  { "enemyTurn", "itemDone", "rhythmCallback", "playerAttackComplete", "enemyShakeComplete",
    "actionEnemyTurn", "enemyAttackComplete", "playerFlashComplete", "transitionToPlayerTurn" }

\* A turn sequence is in flight: the timing check runs or one of its callbacks is pending.
TurnInFlight ==
  \/ scene.state = "MINIGAME"
  \/ \E i \in 1..Len(timers) : timers[i].cb \in TurnCallbacks

\* C34: while a turn sequence is in flight no player intent is accepted: no step counts
\* a further command (a move confirm, an item use, a RUN attempt) and no step opens the
\* move menu or the item menu.
C34_OneTurnSequenceInFlight ==
  [][ TurnInFlight
        => /\ obs'.commands = obs.commands
           /\ scene'.state \in {"PLAYER_SELECTING_MOVE", "PLAYER_SELECTING_ITEM"}
                 => scene'.state = scene.state ]_vars

\* The number of pending timers of callback cb in the timer list ts.
Pending(ts, cb) == Cardinality({i \in 1..Len(ts) : ts[i].cb = cb})

\* C35: a timing check starts only when none is running and no result is waiting to be
\* delivered; a running check is ended by a timeout only if that timeout is its own
\* (the newest one); at most one result is waiting at any time; and a result that is
\* delivered resolves the move of the check once, the check being over.
C35_OneResolutionPerConfirmation ==
  [][ /\ Pending(timers', "rhythmCallback") <= 1
      /\ (obs'.ev = "executePlayerMove" /\ obs'.commands = obs.commands + 1)
           => /\ ~rhythm.isRunning
              /\ Pending(timers, "rhythmCallback") = 0
              /\ rhythm'.isRunning
      /\ (IsDue("rhythmTimeout") /\ rhythm.isRunning /\ ~rhythm'.isRunning
             /\ Pending(timers', "rhythmTimeout") < Pending(timers, "rhythmTimeout"))
           => \A i \in 1..Len(timers) :
                 timers[i].cb = "rhythmTimeout" => timers[i].rem = MinRem(timers)
      /\ (IsDue("rhythmCallback")
             /\ Pending(timers', "rhythmCallback") < Pending(timers, "rhythmCallback"))
           => /\ ~rhythm.isRunning
              /\ Pending(timers, "rhythmCallback") = 1
              /\ obs'.ev = "handleActionCommandResult"
              /\ Pending(timers', "playerAttackComplete")
                    = Pending(timers, "playerAttackComplete") + 1 ]_vars

\* C36: endBattle is invoked at most once in a battle, and once the world is awake no
\* wake-up of that battle is pending any more.
C36_ExitsOnce ==
  [][ /\ obs'.ends <= 1
      /\ world'.phase = "world" => Pending(timers', "endBattleTimer") = 0 ]_vars

\* C37: a step that moves the move cursor while the move menu stays open moves it by
\* exactly one position of the move list, up or down, around the ends.
C37_CursorMovesOnePosition ==
  [][ (scene.state = "PLAYER_SELECTING_MOVE" /\ scene'.state = "PLAYER_SELECTING_MOVE"
         /\ scene'.currentMoveIndex # scene.currentMoveIndex)
        => \E direction \in {-1, 1} :
              scene'.currentMoveIndex
                 = (scene.currentMoveIndex + direction + Len(playerMemory.moves))
                      % Len(playerMemory.moves) ]_vars

\* C38: confirming, in the item menu, a usable entry whose item is not of type heal,
\* comfort or special leaves the inventory as it is and does not spend the turn: no
\* command is counted and no end of an item use is scheduled.
C38_OnlyBattleItemsAreConsumed ==
  [][ (scene.state = "PLAYER_SELECTING_ITEM" /\ Usable
         /\ ItemOf(Selected.id).type \notin {"heal", "comfort", "special"})
        => /\ gameState'.inventory = gameState.inventory
           /\ obs'.commands = obs.commands
           /\ Pending(timers', "itemDone") = Pending(timers, "itemDone") ]_vars

\* A step that starts a turn of the side: the enemy turn, or the player's turn start.
StartsTurn(side) ==
  LET ev == IF side = "enemy" THEN "enemyTurn" ELSE "transitionToPlayerTurn"
  IN  obs'.ev = ev /\ (obs.ev # ev \/ Pending(timers', ev) < Pending(timers, ev))

\* Every status stored on either side has duration 1 or 2.
DurationsStored ==
  \A side \in {"player", "enemy"} :
     \A i \in 1..Len(Statuses(Cur, side)) : Statuses(Cur, side)[i].duration \in {1, 2}

\* The side's statuses that the turn start leaves: those that had duration 2.
Surviving(status) == status.duration = DefaultDuration

\* C39: every stored status has duration 1 or 2; at a turn start of its owner a status
\* of duration 2 stays with duration 1 and a status of duration 1 is removed, nothing
\* else changes in the owner's statuses; and the turn that starts is decided by the
\* statuses that stay only: without a surviving LAUGHING or DISTRACTED it is not skipped,
\* without a surviving PROUD the player is not healed, and an opponent without a
\* surviving LAUGHING, DISTRACTED or CONFUSED attacks.
C39_StatusLastsOneTurn ==
  [][ /\ DurationsStored
      /\ DurationsStored'
      /\ \A side \in {"player", "enemy"} :
            StartsTurn(side) =>
              LET old  == Statuses(Cur, side)
                  new  == Statuses(Stepped, side)
                  kept == SelectSeq(old, Surviving)
              IN  /\ Len(new) = Len(kept)
                  /\ \A i \in 1..Len(kept) : new[i] = [kept[i] EXCEPT !.duration = 1]
                  /\ (side = "player" /\ ~Holds(old, "LAUGHING", 2) /\ ~Holds(old, "DISTRACTED", 2))
                        => scene'.state = "PLAYER_TURN"
                  /\ (side = "player" /\ ~Holds(old, "PROUD", 2))
                        => playerMemory'.currentVibe = playerMemory.currentVibe
                  /\ (side = "enemy" /\ ~Holds(old, "LAUGHING", 2) /\ ~Holds(old, "DISTRACTED", 2)
                         /\ ~Holds(old, "CONFUSED", 2))
                        => /\ Scheduled("enemyAttackComplete", 4)
                           /\ playerMemory'.currentVibe = playerMemory.currentVibe ]_vars

\* An opponent that was CONFUSED hugged the player (12 + 10) and, its next turn having
\* started, holds no status any more and attacks.
C39_Witness ==
  /\ obs.ev = "enemyTurn"
  /\ playerMemory.currentVibe = 22
  /\ Len(Statuses(Cur, "enemy")) = 0
  /\ \E i \in 1..Len(timers) : timers[i].cb = "enemyAttackComplete"
  /\ \E i \in 1..Len(Statuses(Cur, "player")) : Statuses(Cur, "player")[i].duration = 1

\* C10: at the start of every battle both combatants have no active status.
C10_StatusesBattleScoped ==
  (InBattle /\ scene.state = "INTRO")
     => Statuses(Cur, "player") = <<>> /\ Statuses(Cur, "enemy") = <<>>

====
